---- MODULE Spec2Model ----
(***************************************************************************)
(* Authentication / session core of the contacts API:                      *)
(*   src/src/services/auth.py   (class Auth: token codec, identity cache)  *)
(*   src/src/routes/auth.py     (signup, login, refresh_token,             *)
(*                               confirmed_email, request_email)           *)
(*   src/src/repository/users.py (users table access)                      *)
(*                                                                         *)
(* Optional values (Python None) are sets of at most one element:          *)
(* {} is None, {x} is the value x.  A JWT is its claims record together    *)
(* with the key that signed it; HMAC signing and the JSON encoding of the  *)
(* claims are deterministic, so two tokens are the same string exactly     *)
(* when their claims and key are equal.  Time claims are whole seconds     *)
(* (jose converts datetimes with timegm), so the clock counts seconds.     *)
(***************************************************************************)
EXTENDS Integers, FiniteSets, Sequences, TLC

VARIABLES users, cache, issued, reqs, last, now, ticks, contacts

vars == <<users, cache, issued, reqs, last, now, ticks, contacts>>

(* ------------------------------ bounds -------------------------------- *)

MaxTicks == 1
MaxMails == 1
MaxGrants == 1
MaxContacts == 2

Emails == {"a@x.com", "b@x.com"}
Passwords == {"secret1", "secret2"}
SignupPasswords == {"secret1"}
Salts == {1}
Requests == {1}

(* ----------------------------- constants ------------------------------ *)

SECRET_KEY == "secret_key"
OTHER_KEY == "other_key"

AccessMinutes == 15
RefreshDays == 7
EmailDays == 7
CacheTtl == 900

SecondsPerMinute == 60
SecondsPerDay == 86400

HTTP_200 == 200
HTTP_201 == 201
HTTP_400 == 400
HTTP_401 == 401
HTTP_404 == 404
HTTP_409 == 409
HTTP_422 == 422
HTTP_500 == 500

None == {}
Some(x) == {x}
The(s) == CHOOSE x \in s : TRUE

TickSteps == {1, CacheTtl, RefreshDays * SecondsPerDay + 1}

(* --------------------------- Credential hasher ------------------------- *)

\* pwd_context.hash: salted digest; the salt is chosen by the library.
get_password_hash(password, salt) == [salt |-> salt, digest_of |-> password]

\* (verify with its test inverted)
verify_password_inverted(plain_password, hashed_password) ==
    hashed_password.digest_of # plain_password

\* pwd_context.verify
verify_password(plain_password, hashed_password) ==
    hashed_password.digest_of = plain_password

(* ------------------------------ Token codec ---------------------------- *)

\* Python truthiness of an Optional[float]: None and 0 are falsy.
Truthy(expires_delta) == expires_delta # None /\ expires_delta # Some(0)

jwt_encode(claims, key) == [claims |-> claims, key |-> key]

\* (decode with verify_exp switched off)
JWTError_no_expiry(token, t) == token.key # SECRET_KEY

\* (decode that does not verify the signature)
JWTError_any_key(token, t) == token.claims.exp < t

\* jose.jwt.decode: signature, then exp (expired when exp < now)
JWTError(token, t) == token.key # SECRET_KEY \/ token.claims.exp < t

create_email_token(sub, t) ==
    jwt_encode([sub |-> sub, iat |-> t, exp |-> t + EmailDays * SecondsPerDay],
               SECRET_KEY)

create_access_token(sub, expires_delta, t) ==
    LET expire == IF Truthy(expires_delta)
                  THEN t + The(expires_delta)
                  ELSE t + AccessMinutes * SecondsPerMinute
    IN jwt_encode([sub |-> sub, iat |-> t, exp |-> expire, scope |-> "access_token"],
                  SECRET_KEY)

create_refresh_token(sub, expires_delta, t) ==
    LET expire == IF Truthy(expires_delta)
                  THEN t + The(expires_delta)
                  ELSE t + RefreshDays * SecondsPerDay
    IN jwt_encode([sub |-> sub, iat |-> t, exp |-> expire, scope |-> "refresh_token"],
                  SECRET_KEY)

HasScope(token) == "scope" \in DOMAIN token.claims

Failure(status, detail) == [ok |-> FALSE, status |-> status, detail |-> detail]

\* (decode_refresh_token without its scope test)
decode_refresh_token_any_scope(token, t) ==
    IF JWTError(token, t)
    THEN [ok |-> FALSE, status |-> HTTP_401, detail |-> "Could not validate credentials"]
    ELSE IF "scope" \notin DOMAIN token.claims
    THEN [ok |-> FALSE, status |-> HTTP_500, detail |-> "KeyError"]
    ELSE [ok |-> TRUE, email |-> token.claims.sub]

\* Auth.decode_refresh_token: the email, or the raised error.  A payload
\* without a scope claim raises KeyError, which is not a JWTError and is
\* not an HTTPException: the request ends as an internal server error.
decode_refresh_token(token, t) ==
    IF JWTError(token, t)
    THEN Failure(HTTP_401, "Could not validate credentials")
    ELSE IF ~HasScope(token)
    THEN Failure(HTTP_500, "KeyError")
    ELSE IF token.claims.scope = "refresh_token"
    THEN [ok |-> TRUE, email |-> token.claims.sub]
    ELSE Failure(HTTP_401, "Invalid scope for token")

\* Auth.get_email_from_token: no scope check.
get_email_from_token(token, t) ==
    IF JWTError(token, t)
    THEN Failure(HTTP_422, "Invalid token for email verification")
    ELSE [ok |-> TRUE, email |-> token.claims.sub]

\* The decoding part of Auth.get_current_user (lines 153-163).
decode_access_token(token, t) ==
    IF JWTError(token, t)
    THEN Failure(HTTP_401, "Could not validate credentials")
    ELSE IF ~HasScope(token)
    THEN Failure(HTTP_500, "KeyError")
    ELSE IF token.claims.scope = "access_token"
    THEN [ok |-> TRUE, email |-> token.claims.sub]
    ELSE Failure(HTTP_401, "Could not validate credentials")

(* ------------------------------ users table ---------------------------- *)

\* select(User).filter_by(email=email) ... scalar_one_or_none()
get_user_by_email(email, db) == {u \in db : u.email = email}

\* (create_user without db.add)
create_user_not_stored(email, password, db) == db

\* User(**body.model_dump(), avatar=avatar); db.add; db.commit; db.refresh
create_user(email, password, db) ==
    db \cup {[id |-> Cardinality(db) + 1, email |-> email, password |-> password,
              refresh_token |-> None, confirmed |-> FALSE]}

\* (update_token writing the whole row back, confirmed at its column default)
update_token_whole_row(user, token, db) ==
    (db \ {user}) \cup {[user EXCEPT !.refresh_token = token, !.confirmed = FALSE]}

\* user.refresh_token = token; db.commit()
update_token(user, token, db) ==
    (db \ {user}) \cup {[user EXCEPT !.refresh_token = token]}

\* (confirmed_email without the assignment reaching the table)
confirmed_email_not_stored(email, db) == db

\* user = get_user_by_email(email); user.confirmed = True; db.commit()
confirmed_email(email, db) ==
    {IF u.email = email THEN [u EXCEPT !.confirmed = TRUE] ELSE u : u \in db}

(* ------------------------------ mailer --------------------------------- *)

\* send_email(email, username, host): builds the confirmation token for the
\* address and mails the link; the token is what the user ends up holding.
send_email(email, t) == create_email_token(email, t)

(* ---------------------------- identity cache --------------------------- *)

NoEntry == None

\* r.get(key): an entry whose time-to-live has run out is gone.
Readable(entry, t) == entry # NoEntry /\ (The(entry).ttl = None \/ t < The(The(entry).ttl))

r_get(c, email, t) == IF Readable(c[email], t) THEN c[email] ELSE NoEntry

\* r.set(key, pickle.dumps(user)): plain SET, the key has no time-to-live.
r_set(c, email, user, loaded) ==
    [c EXCEPT ![email] = Some([value |-> user, ttl |-> None, loaded |-> loaded])]

\* r.expire(key, 900): no effect on a missing key.
r_expire(c, email, seconds, t) ==
    IF Readable(c[email], t)
    THEN [c EXCEPT ![email] = Some([The(c[email]) EXCEPT !.ttl = Some(t + seconds)])]
    ELSE [c EXCEPT ![email] = NoEntry]

(* ------------------------------ requests ------------------------------- *)

\* Tokens some client holds, plus tokens signed with a key that is not ours.
ForgedTokens ==
    {jwt_encode([sub |-> "a@x.com", iat |-> 0, exp |-> 100 * SecondsPerDay, scope |-> s], OTHER_KEY) :
        s \in {"access_token", "refresh_token"}}

Presentable == issued \cup ForgedTokens

\* The response of the most recently finished request.  user and hit are set
\* by get_current_user only: the resolved user, and for a cache hit the
\* time-to-live and the age of the entry that was read and the number of
\* selects on the users table the call made before it answered.
Reply(op, status, detail, tokens) ==
    [op |-> op, status |-> status, detail |-> detail, tokens |-> tokens,
     user |-> None, hit |-> None]

\* A granted token pair; for refresh_token `from` is the token it replaced.
Granted(op, access_token, refresh_token, from) ==
    Reply(op, HTTP_200, "bearer",
          Some([access_token |-> access_token, refresh_token |-> refresh_token,
                from |-> from]))

IdleReq == [pc |-> "idle"]

\* The contacts table: its rows and the next value of the id sequence.
NoContacts == [rows |-> {}, next_id |-> 1]

Init ==
    /\ users = {}
    /\ cache = [e \in Emails |-> NoEntry]
    /\ issued = {}
    /\ reqs = [r \in Requests |-> IdleReq]
    /\ last = Reply("none", HTTP_200, "", None)
    /\ now = 0
    /\ ticks = 0
    /\ contacts = NoContacts

\* The confirmation mails sent and the token pairs granted are capped.
Mails(toks) == {t \in toks : ~HasScope(t)}
Grants(toks) == {t \in toks : HasScope(t) /\ t.claims.scope = "refresh_token"}

CanIssue(toks) ==
    /\ Cardinality(Mails(issued \cup toks)) <= MaxMails
    /\ Cardinality(Grants(issued \cup toks)) <= MaxGrants

(* ------------------------- routes/auth.py ------------------------------ *)

\* (signup without the test for an existing account)
signup_no_exist_check(email, password, salt) ==
    LET mail == send_email(email, now)
    IN /\ CanIssue({mail})
       /\ users' = create_user(email, get_password_hash(password, salt), users)
       /\ issued' = issued \cup {mail}
       /\ last' = Reply("signup", HTTP_201, "User successfully created", None)
       /\ UNCHANGED <<cache, reqs, now, ticks, contacts>>

\* POST /auth/signup
signup(email, password, salt) ==
    LET exist_user == get_user_by_email(email, users)
        mail == send_email(email, now)
    IN /\ exist_user # None \/ CanIssue({mail})
       /\ IF exist_user # None
          THEN /\ last' = Reply("signup", HTTP_409, "Account already exists", None)
               /\ UNCHANGED <<users, issued>>
          ELSE /\ users' = create_user(email, get_password_hash(password, salt), users)
               /\ issued' = issued \cup {mail}
               /\ last' = Reply("signup", HTTP_201, "User successfully created", None)
       /\ UNCHANGED <<cache, reqs, now, ticks, contacts>>

\* login, lines 57-63: the reason to refuse the login, "" to let it pass.
\* (login_check without the test of the confirmed flag)
login_check_no_confirmed(found, password) ==
    IF found = None THEN "Invalid email"
    ELSE IF ~verify_password(password, The(found).password) THEN "Invalid password"
    ELSE ""

\* (login_check with the password tested before the confirmed flag)
login_check_password_first(found, password) ==
    IF found = None THEN "Invalid email"
    ELSE IF ~verify_password(password, The(found).password) THEN "Invalid password"
    ELSE IF ~The(found).confirmed THEN "Email not confirmed"
    ELSE ""

login_check(found, password) ==
    IF found = None THEN "Invalid email"
    ELSE IF ~The(found).confirmed THEN "Email not confirmed"
    ELSE IF ~verify_password(password, The(found).password) THEN "Invalid password"
    ELSE ""

\* POST /auth/login
login(username, password) ==
    LET found == get_user_by_email(username, users)
        refused == login_check(found, password)
        access_token == create_access_token(username, None, now)
        refresh_token == create_refresh_token(username, None, now)
    IN IF refused # ""
       THEN /\ last' = Reply("login", HTTP_401, refused, None)
            /\ UNCHANGED <<users, cache, issued, reqs, now, ticks, contacts>>
       ELSE /\ CanIssue({access_token, refresh_token})
            /\ users' = update_token(The(found), Some(refresh_token), users)
            /\ issued' = issued \cup {access_token, refresh_token}
            /\ last' = Granted("login", access_token, refresh_token, None)
            /\ UNCHANGED <<cache, reqs, now, ticks, contacts>>

\* (refresh_token clearing the stored token of the subject of a token that
\* did not decode)
refresh_outcome_clears_on_failure(token, db, t) ==
    LET decoded == decode_refresh_token(token, t)
        found == get_user_by_email(token.claims.sub, db)
    IN [reply |-> Reply("refresh", HTTP_401, "Invalid refresh token", None),
        users |-> IF found = None THEN db ELSE update_token(The(found), None, db),
        minted |-> {}]

\* refresh_token, lines 83-93: what the handler answers, the users table
\* it leaves and the tokens it hands out, for the table db at time t.
refresh_outcome(token, db, t) ==
    LET decoded == decode_refresh_token(token, t)
        email == decoded.email
        found == get_user_by_email(email, db)
        user == The(found)
        access_token == create_access_token(email, None, t)
        new_refresh_token == create_refresh_token(email, None, t)
    IN IF ~decoded.ok
       THEN [reply |-> Reply("refresh", decoded.status, decoded.detail, None),
             users |-> db, minted |-> {}]
       ELSE IF found = None
       THEN [reply |-> Reply("refresh", HTTP_500, "AttributeError", None),
             users |-> db, minted |-> {}]
       ELSE IF user.refresh_token # Some(token)
       THEN [reply |-> Reply("refresh", HTTP_401, "Invalid refresh token", None),
             users |-> update_token(user, None, db), minted |-> {}]
       ELSE [reply |-> Granted("refresh", access_token, new_refresh_token, Some(token)),
             users |-> update_token(user, Some(new_refresh_token), db),
             minted |-> {access_token, new_refresh_token}]

\* GET /auth/refresh_token
refresh_token(token) ==
    LET outcome == refresh_outcome(token, users, now)
    IN /\ CanIssue(outcome.minted)
       /\ users' = outcome.users
       /\ issued' = issued \cup outcome.minted
       /\ last' = outcome.reply
       /\ UNCHANGED <<cache, reqs, now, ticks, contacts>>

\* GET /auth/confirmed_email/{token}
confirmed_email_route(token) ==
    LET decoded == get_email_from_token(token, now)
        email == decoded.email
        found == get_user_by_email(email, users)
        user == The(found)
    IN /\ IF ~decoded.ok
          THEN /\ last' = Reply("confirm", decoded.status, decoded.detail, None)
               /\ UNCHANGED users
          ELSE IF found = None
          THEN /\ last' = Reply("confirm", HTTP_400, "Verification error", None)
               /\ UNCHANGED users
          ELSE IF user.confirmed
          THEN /\ last' = Reply("confirm", HTTP_200, "Your email is already confirmed", None)
               /\ UNCHANGED users
          ELSE /\ users' = confirmed_email(email, users)
               /\ last' = Reply("confirm", HTTP_200, "Email confirmed", None)
       /\ UNCHANGED <<cache, issued, reqs, now, ticks, contacts>>

\* (request_email without the test of the confirmed flag)
request_email_always(email) ==
    LET found == get_user_by_email(email, users)
        mail == send_email(email, now)
    IN /\ IF found = None
          THEN /\ last' = Reply("request_email", HTTP_500, "AttributeError", None)
               /\ UNCHANGED issued
          ELSE /\ CanIssue({mail})
               /\ issued' = issued \cup {mail}
               /\ last' = Reply("request_email", HTTP_200, "Check your email for confirmation.", None)
       /\ UNCHANGED <<users, cache, reqs, now, ticks, contacts>>

\* POST /auth/request_email.  user.confirmed is read before the test for an
\* absent user, so an unknown address ends in AttributeError.
request_email(email) ==
    LET found == get_user_by_email(email, users)
        user == The(found)
        mail == send_email(email, now)
    IN /\ IF found = None
          THEN /\ last' = Reply("request_email", HTTP_500, "AttributeError", None)
               /\ UNCHANGED issued
          ELSE IF user.confirmed
          THEN /\ last' = Reply("request_email", HTTP_200, "Your email is already confirmed", None)
               /\ UNCHANGED issued
          ELSE /\ CanIssue({mail})
               /\ issued' = issued \cup {mail}
               /\ last' = Reply("request_email", HTTP_200, "Check your email for confirmation.", None)
       /\ UNCHANGED <<users, cache, reqs, now, ticks, contacts>>

(* ------------------- Auth.get_current_user, step by step --------------- *)

\* The cache and the users table are servers shared by every worker, so a
\* call is a sequence of steps, one per round of cache access.  A call that
\* ends in its first step (refused, or a cache hit) is never pending;
\* Requests are the workers that can be in the middle of filling the cache.
\*   gcu_lookup  lines 153-169 and 175-177  decode, users lookup, r.get
\*   gcu_fill    lines 170-173              users load and r.set after a miss
\*   gcu_expire  lines 174 and 177          r.expire, return

Resolved(status, detail, user, hit) ==
    [op |-> "current_user", status |-> status, detail |-> detail,
     tokens |-> None, user |-> user, hit |-> hit]

Unauthenticated == Resolved(HTTP_401, "Could not validate credentials", None, None)

gcu_lookup(r, token) ==
    LET decoded == decode_access_token(token, now)
        email == decoded.email
        entry == r_get(cache, email, now)
    IN /\ IF ~decoded.ok
          THEN /\ last' = Resolved(decoded.status, decoded.detail, None, None)
               /\ UNCHANGED reqs
          ELSE IF get_user_by_email(email, users) = None
          THEN /\ last' = Unauthenticated
               /\ UNCHANGED reqs
          ELSE IF entry # NoEntry
          THEN /\ last' = Resolved(HTTP_200, "hit", Some(The(entry).value),
                                   Some([ttl |-> The(entry).ttl,
                                         age |-> now - The(entry).loaded,
                                         selects |-> 1]))
               /\ UNCHANGED reqs
          ELSE /\ reqs[r].pc = "idle"
               /\ reqs' = [reqs EXCEPT ![r] = [pc |-> "miss", email |-> email]]
               /\ UNCHANGED last
       /\ UNCHANGED <<users, cache, issued, now, ticks, contacts>>

gcu_fill(r) ==
    LET email == reqs[r].email
        found == get_user_by_email(email, users)
    IN /\ reqs[r].pc = "miss"
       /\ IF found = None
          THEN /\ reqs' = [reqs EXCEPT ![r] = IdleReq]
               /\ last' = Unauthenticated
               /\ UNCHANGED cache
          ELSE /\ cache' = r_set(cache, email, The(found), now)
               /\ reqs' = [reqs EXCEPT ![r] = [pc |-> "set", email |-> email,
                                                  user |-> The(found)]]
               /\ UNCHANGED last
       /\ UNCHANGED <<users, issued, now, ticks, contacts>>

gcu_expire(r) ==
    /\ reqs[r].pc = "set"
    /\ cache' = r_expire(cache, reqs[r].email, CacheTtl, now)
    /\ reqs' = [reqs EXCEPT ![r] = IdleReq]
    /\ last' = Resolved(HTTP_200, "miss", Some(reqs[r].user), None)
    /\ UNCHANGED <<users, issued, now, ticks, contacts>>

(* ------------------------------- clock --------------------------------- *)

\* Time passes; the cache server drops the entries whose time-to-live ran out.
Tick(d) ==
    /\ ticks < MaxTicks
    /\ now' = now + d
    /\ ticks' = ticks + 1
    /\ cache' = [e \in Emails |-> r_get(cache, e, now + d)]
    /\ UNCHANGED <<users, issued, reqs, last, contacts>>

Next ==
    \/ \E e \in Emails, p \in SignupPasswords, s \in Salts : signup(e, p, s)
    \/ \E e \in Emails, p \in Passwords : login(e, p)
    \/ \E t \in Presentable : refresh_token(t)
    \/ \E t \in Presentable : confirmed_email_route(t)
    \/ \E e \in Emails : request_email(e)
    \/ \E r \in Requests, t \in Presentable : gcu_lookup(r, t)
    \/ \E r \in Requests : gcu_fill(r)
    \/ \E r \in Requests : gcu_expire(r)
    \/ \E d \in TickSteps : Tick(d)

Spec == Init /\ [][Next]_vars

(* ------------------------- the codec on its own ------------------------ *)

\* create_access_token / create_refresh_token called with an explicit
\* expires_delta, and the matching decoder applied to the result later on.
Deltas == {None, Some(0 - 1), Some(0), Some(1), Some(CacheTtl)}

Coded(op, token, expires_delta, status) ==
    [op |-> op, status |-> status, detail |-> "", user |-> None, hit |-> None,
     tokens |-> Some([token |-> token, expires_delta |-> expires_delta])]

codec_access(sub, expires_delta) ==
    /\ last' = Coded("encode", create_access_token(sub, expires_delta, now),
                     expires_delta, HTTP_200)
    /\ UNCHANGED <<users, cache, issued, reqs, now, ticks, contacts>>

codec_refresh(sub, expires_delta) ==
    /\ last' = Coded("encode", create_refresh_token(sub, expires_delta, now),
                     expires_delta, HTTP_200)
    /\ UNCHANGED <<users, cache, issued, reqs, now, ticks, contacts>>

codec_decode ==
    LET token == The(last.tokens).token
        decoded == IF token.claims.scope = "access_token"
                   THEN decode_access_token(token, now)
                   ELSE decode_refresh_token(token, now)
    IN /\ last.op \in {"encode", "decode"}
       /\ last' = Coded("decode", token, The(last.tokens).expires_delta,
                        IF decoded.ok THEN HTTP_200 ELSE decoded.status)
       /\ UNCHANGED <<users, cache, issued, reqs, now, ticks, contacts>>

NextCodec ==
    \/ \E e \in Emails, d \in Deltas : codec_access(e, d)
    \/ \E e \in Emails, d \in Deltas : codec_refresh(e, d)
    \/ codec_decode
    \/ \E d \in TickSteps : Tick(d)

SpecCodec == Init /\ [][NextCodec]_vars

(* --------------------- handlers of several workers --------------------- *)

\* The users table is a database server shared by every worker process and
\* each request has a session of its own, so between the select of a handler
\* and its commit another worker's handler can run.  signup and refresh_token
\* are taken in two steps each, the select and the rest; reqs holds what each
\* worker's session has read, and the answer once the handler is done.
Workers == {1, 2}

InitRace ==
    /\ users = {}
    /\ cache = [e \in Emails |-> NoEntry]
    /\ issued = {}
    /\ reqs = [w \in Workers |-> IdleReq]
    /\ last = Reply("none", HTTP_200, "", None)
    /\ now = 0
    /\ ticks = 0
    /\ contacts = NoContacts

Free(w) == reqs[w].pc \in {"idle", "done"}

Done(reply, arg) == [pc |-> "done", reply |-> reply, arg |-> arg]

\* UPDATE users SET refresh_token = ... WHERE id = ...: the flush writes the
\* changed column of the row with the primary key of the session's object.
row_of(user, db) == The({u \in db : u.id = user.id})

\* signup, line 36
signup_select(w, email, password, salt) ==
    /\ Free(w)
    /\ reqs' = [reqs EXCEPT ![w] =
                   [pc |-> "signup", email |-> email,
                    password |-> get_password_hash(password, salt),
                    exist_user |-> get_user_by_email(email, users)]]
    /\ UNCHANGED <<users, cache, issued, last, now, ticks, contacts>>

\* signup, lines 37-42.  The insert of a second row with the same email
\* breaks the unique constraint of users.email: db.commit() raises
\* IntegrityError, which nothing catches.
signup_insert(w) ==
    LET email == reqs[w].email
        mail == send_email(email, now)
    IN /\ reqs[w].pc = "signup"
       /\ IF reqs[w].exist_user # None
          THEN /\ reqs' = [reqs EXCEPT ![w] =
                             Done(Reply("signup", HTTP_409, "Account already exists", None),
                                  email)]
               /\ UNCHANGED <<users, issued>>
          ELSE IF get_user_by_email(email, users) # None
          THEN /\ reqs' = [reqs EXCEPT ![w] =
                             Done(Reply("signup", HTTP_500, "IntegrityError", None), email)]
               /\ UNCHANGED <<users, issued>>
          ELSE /\ CanIssue({mail})
               /\ users' = create_user(email, reqs[w].password, users)
               /\ issued' = issued \cup {mail}
               /\ reqs' = [reqs EXCEPT ![w] =
                             Done(Reply("signup", HTTP_201, "User successfully created", None),
                                  email)]
       /\ UNCHANGED <<cache, last, now, ticks, contacts>>

\* refresh_token, lines 83-85
refresh_select(w, token) ==
    LET decoded == decode_refresh_token(token, now)
        found == get_user_by_email(decoded.email, users)
    IN /\ Free(w)
       /\ reqs' = [reqs EXCEPT ![w] =
                      IF ~decoded.ok
                      THEN Done(Reply("refresh", decoded.status, decoded.detail, None), token)
                      ELSE IF found = None
                      THEN Done(Reply("refresh", HTTP_500, "AttributeError", None), token)
                      ELSE [pc |-> "refresh", token |-> token, user |-> The(found)]]
       /\ UNCHANGED <<users, cache, issued, last, now, ticks, contacts>>

\* refresh_token, lines 86-93, on the user object the session read
refresh_commit(w) ==
    LET token == reqs[w].token
        user == reqs[w].user
        email == user.email
        access_token == create_access_token(email, None, now)
        new_refresh_token == create_refresh_token(email, None, now)
    IN /\ reqs[w].pc = "refresh"
       /\ IF user.refresh_token # Some(token)
          THEN /\ users' = update_token(row_of(user, users), None, users)
               /\ reqs' = [reqs EXCEPT ![w] =
                             Done(Reply("refresh", HTTP_401, "Invalid refresh token", None),
                                  token)]
               /\ UNCHANGED issued
          ELSE /\ users' = update_token(row_of(user, users), Some(new_refresh_token), users)
               /\ issued' = issued \cup {access_token, new_refresh_token}
               /\ reqs' = [reqs EXCEPT ![w] =
                             Done(Granted("refresh", access_token, new_refresh_token,
                                          Some(token)), token)]
       /\ UNCHANGED <<cache, last, now, ticks, contacts>>

NextRace ==
    \/ \E w \in Workers, e \in Emails, p \in SignupPasswords, s \in Salts :
          signup_select(w, e, p, s)
    \/ \E w \in Workers : signup_insert(w)
    \/ \E t \in Presentable : confirmed_email_route(t)
    \/ \E e \in Emails, p \in Passwords : login(e, p)
    \/ \E w \in Workers, t \in Presentable : refresh_select(w, t)
    \/ \E w \in Workers : refresh_commit(w)
    \/ \E d \in TickSteps : Tick(d)

SpecRace == InitRace /\ [][NextRace]_vars

(* ---------------------- signup and its background task ----------------- *)

\* signup hands send_email to BackgroundTasks (line 41) and returns; the
\* task runs in the worker once the response is out.  It ends with the mail
\* sent or with the mailer's failure, or it does not end at all.
MailOutcomes == {"sent", "failed"}

\* (signup awaiting send_email before it answers)
signup_respond_awaiting(w, email, password, salt) ==
    LET exist_user == get_user_by_email(email, users)
        mail == send_email(email, now)
    IN /\ Free(w)
       /\ IF exist_user # None
          THEN /\ last' = Reply("signup", HTTP_409, "Account already exists", None)
               /\ UNCHANGED <<users, issued>>
          ELSE /\ users' = create_user(email, get_password_hash(password, salt), users)
               /\ \E outcome \in MailOutcomes :
                    IF outcome = "sent"
                    THEN /\ CanIssue({mail})
                         /\ issued' = issued \cup {mail}
                         /\ last' = Reply("signup", HTTP_201, "User successfully created", None)
                    ELSE /\ UNCHANGED issued
                         /\ last' = Reply("signup", HTTP_500, "ConnectionErrors", None)
       /\ UNCHANGED <<cache, reqs, now, ticks, contacts>>

\* signup, lines 36-42
signup_respond(w, email, password, salt) ==
    LET exist_user == get_user_by_email(email, users)
    IN /\ Free(w)
       /\ IF exist_user # None
          THEN /\ last' = Reply("signup", HTTP_409, "Account already exists", None)
               /\ UNCHANGED <<users, reqs>>
          ELSE /\ users' = create_user(email, get_password_hash(password, salt), users)
               /\ reqs' = [reqs EXCEPT ![w] = [pc |-> "mail", email |-> email]]
               /\ last' = Reply("signup", HTTP_201, "User successfully created", None)
       /\ UNCHANGED <<cache, issued, now, ticks, contacts>>

\* The queued send_email(new_user.email, new_user.username, request.base_url)
send_email_task(w, outcome) ==
    LET mail == send_email(reqs[w].email, now)
    IN /\ reqs[w].pc = "mail"
       /\ IF outcome = "sent"
          THEN /\ CanIssue({mail})
               /\ issued' = issued \cup {mail}
          ELSE UNCHANGED issued
       /\ reqs' = [reqs EXCEPT ![w] = IdleReq]
       /\ UNCHANGED <<users, cache, last, now, ticks, contacts>>

NextMail ==
    \/ \E w \in Workers, e \in Emails, p \in SignupPasswords, s \in Salts :
          signup_respond(w, e, p, s)
    \/ \E w \in Workers, o \in MailOutcomes : send_email_task(w, o)
    \/ \E t \in Presentable : confirmed_email_route(t)
    \/ \E e \in Emails, p \in Passwords : login(e, p)
    \/ \E d \in TickSteps : Tick(d)

SpecMail == InitRace /\ [][NextMail]_vars

(* ------------------------------ calendar ------------------------------- *)

\* datetime.date as [year, month, day]; comparison, date + timedelta(days=n)
\* and date.replace(year=...) as the standard library computes them.
Date(year, month, day) == [year |-> year, month |-> month, day |-> day]

IsLeap(year) == (year % 4 = 0 /\ year % 100 # 0) \/ year % 400 = 0

DaysInMonth(year, month) ==
    IF month = 2 THEN (IF IsLeap(year) THEN 29 ELSE 28)
    ELSE IF month \in {4, 6, 9, 11} THEN 30
    ELSE 31

Before(a, b) ==
    \/ a.year < b.year
    \/ a.year = b.year /\ a.month < b.month
    \/ a.year = b.year /\ a.month = b.month /\ a.day < b.day

NextDay(d) ==
    IF d.day < DaysInMonth(d.year, d.month) THEN Date(d.year, d.month, d.day + 1)
    ELSE IF d.month < 12 THEN Date(d.year, d.month + 1, 1)
    ELSE Date(d.year + 1, 1, 1)

RECURSIVE AddDays(_, _)
AddDays(d, n) == IF n = 0 THEN d ELSE AddDays(NextDay(d), n - 1)

\* d.replace(year=year): None stands for the ValueError of 29 February in
\* a year that has none.
ReplaceYear(d, year) ==
    IF d.day <= DaysInMonth(year, d.month) THEN Some(Date(year, d.month, d.day)) ELSE None

(* ------------------------------ str methods ---------------------------- *)

\* Strings that are searched are sequences of characters.
startswith(str, prefix) ==
    Len(prefix) <= Len(str) /\ SubSeq(str, 1, Len(prefix)) = prefix

endswith(str, suffix) ==
    Len(suffix) <= Len(str) /\ SubSeq(str, Len(str) - Len(suffix) + 1, Len(str)) = suffix

(* --------------------------- repository/contacts.py -------------------- *)

\* A row of contacts has id, user_id, name, last_name, email and birthday;
\* email and birthday may be NULL.  phone and description are carried like
\* name and take part in no query.

\* The outcome of a repository call: the rows it returns (for a single
\* contact, at most one) and the table it leaves; error names the exception
\* that went through the handler, "" for none.
Outcome(result, table, error) == [result |-> result, table |-> table, error |-> error]

Mine(user, table) == {c \in table.rows : c.user_id = user.id}

InWeek(contact, today) ==
    LET turned == The(ReplaceYear(The(contact.birthday), today.year))
    IN Before(today, turned) /\ ~Before(AddDays(today, 7), turned)

\* seven_days: contact.birthday.replace raises AttributeError for a NULL
\* birthday and ValueError for 29 February turned to a common year.
seven_days(user, table, today) ==
    LET mine == Mine(user, table)
    IN IF \E c \in mine : c.birthday = None
       THEN Outcome({}, table, "AttributeError")
       ELSE IF \E c \in mine : ReplaceYear(The(c.birthday), today.year) = None
       THEN Outcome({}, table, "ValueError")
       ELSE Outcome({c \in mine : InWeek(c, today)}, table, "")

Min(a, b) == IF a < b THEN a ELSE b
Max(a, b) == IF a < b THEN b ELSE a

\* get_contacts: OFFSET and LIMIT on a query that has no ORDER BY; which
\* rows make up the page is the database's choice, their number is not.
\* The set of pages the call can return.
get_contacts(skip, limit, user, table) ==
    {page \in SUBSET Mine(user, table) :
        Cardinality(page) = Min(limit, Max(Cardinality(Mine(user, table)) - skip, 0))}

get_contact(contact_id, user, table) ==
    Outcome({c \in Mine(user, table) : c.id = contact_id}, table, "")

\* A comparison with a NULL column is not true.
Matches(column, search_string) ==
    \E str \in column :
        startswith(str, search_string) \/ endswith(str, search_string) \/ str = search_string

\* find_contact: one_or_none() raises MultipleResultsFound for two rows.
find_contact(search_string, user, table) ==
    LET found == {c \in Mine(user, table) :
                     \/ Matches(Some(c.name), search_string)
                     \/ Matches(c.email, search_string)
                     \/ Matches(Some(c.last_name), search_string)}
    IN IF Cardinality(found) > 1
       THEN Outcome({}, table, "MultipleResultsFound")
       ELSE Outcome(found, table, "")

\* create_contact: the id comes from the sequence of the table.
create_contact(body, user, table) ==
    LET contact == [id |-> table.next_id, user_id |-> user.id, name |-> body.name,
                    last_name |-> body.last_name, email |-> body.email,
                    birthday |-> body.birthday]
    IN Outcome({contact},
               [rows |-> table.rows \cup {contact}, next_id |-> table.next_id + 1], "")

\* (remove_contact without db.delete)
remove_contact_keeps_row(contact_id, user, table) ==
    LET contact == {c \in Mine(user, table) : c.id = contact_id}
    IN Outcome(contact, table, "")

\* (remove_contact that selects by id alone)
remove_contact_any_owner(contact_id, user, table) ==
    LET contact == {c \in table.rows : c.id = contact_id}
    IN Outcome(contact, [table EXCEPT !.rows = @ \ contact], "")

remove_contact(contact_id, user, table) ==
    LET contact == {c \in Mine(user, table) : c.id = contact_id}
    IN Outcome(contact, [table EXCEPT !.rows = @ \ contact], "")

\* model_dump() of a ContactUpdate without the None values
UpdateFields == {"name", "last_name", "email", "birthday"}

update_data(body) == {k \in UpdateFields : body[k] # None}

\* The row after UPDATE ... SET of the given columns; name and last_name
\* hold the value, the nullable columns hold it as an optional.
Updated(contact, body, fields) ==
    [k \in DOMAIN contact |->
        IF k \notin fields THEN contact[k]
        ELSE IF k \in {"name", "last_name"} THEN The(body[k])
        ELSE body[k]]

\* (update_contact writing model_dump() as it is, None values included)
update_contact_all_fields(contact_id, body, user, table) ==
    LET contact == {c \in Mine(user, table) : c.id = contact_id}
        updated == {[c EXCEPT !.email = body.email, !.birthday = body.birthday,
                              !.name = IF body.name = None THEN c.name ELSE The(body.name),
                              !.last_name = IF body.last_name = None THEN c.last_name
                                            ELSE The(body.last_name)] : c \in contact}
    IN Outcome(updated, [table EXCEPT !.rows = (@ \ contact) \cup updated], "")

update_contact(contact_id, body, user, table) ==
    LET contact == {c \in Mine(user, table) : c.id = contact_id}
        updated == {Updated(c, body, update_data(body)) : c \in contact}
    IN Outcome(updated, [table EXCEPT !.rows = (@ \ contact) \cup updated], "")

(* ---------------------------- routes/contacts.py ----------------------- *)

\* (get_current_user refusing a user that has no refresh token)
get_current_user_live_session(bearer, c, db, t) ==
    LET token == The(bearer)
        decoded == decode_access_token(token, t)
        found == get_user_by_email(decoded.email, db)
    IN IF bearer = None \/ ~decoded.ok \/ found = None
       THEN [ok |-> FALSE, status |-> HTTP_401, detail |-> "Could not validate credentials",
             cache |-> c]
       ELSE IF The(found).refresh_token = None
       THEN [ok |-> FALSE, status |-> HTTP_401, detail |-> "Could not validate credentials",
             cache |-> c]
       ELSE [ok |-> TRUE, user |-> The(found), cache |-> c]

\* (get_current_user trusting the claims of the token it is given)
get_current_user_unverified(bearer, c, db, t) ==
    LET found == get_user_by_email(The(bearer).claims.sub, db)
    IN IF bearer = None \/ found = None
       THEN [ok |-> FALSE, status |-> HTTP_401, detail |-> "Not authenticated", cache |-> c]
       ELSE [ok |-> TRUE, user |-> The(found), cache |-> c]

\* Auth.get_current_user as one worker runs it from its first line to its
\* last: the answer, and the cache the call leaves.  A request without a
\* bearer token is refused by oauth2_scheme before the first line.
get_current_user(bearer, c, db, t) ==
    LET token == The(bearer)
        decoded == decode_access_token(token, t)
        email == decoded.email
        found == get_user_by_email(email, db)
        entry == r_get(c, email, t)
    IN IF bearer = None
       THEN [ok |-> FALSE, status |-> HTTP_401, detail |-> "Not authenticated", cache |-> c]
       ELSE IF ~decoded.ok
       THEN [ok |-> FALSE, status |-> decoded.status, detail |-> decoded.detail, cache |-> c]
       ELSE IF found = None
       THEN [ok |-> FALSE, status |-> HTTP_401, detail |-> "Could not validate credentials",
             cache |-> c]
       ELSE IF entry # NoEntry
       THEN [ok |-> TRUE, user |-> The(entry).value, cache |-> c]
       ELSE [ok |-> TRUE, user |-> The(found),
             cache |-> r_expire(r_set(c, email, The(found), t), email, CacheTtl, t)]

\* The answer of a contacts route to the request that carried `bearer`: the
\* contacts in its body, none in a refusal.
ContactReply(op, bearer, status, detail, result) ==
    [op |-> op, status |-> status, detail |-> detail, tokens |-> None, user |-> None,
     hit |-> None, bearer |-> bearer, result |-> result]

\* Depends(auth_service.get_current_user) raised: the handler does not run.
Denied(op, bearer, who) ==
    /\ last' = ContactReply(op, bearer, who.status, who.detail, {})
    /\ UNCHANGED <<cache, contacts>>

\* The handler's answer for a repository outcome: an exception that nothing
\* catches is a 500, no contact is the 404 of the routes for one contact.
Answered(op, bearer, found, outcome, who) ==
    /\ contacts' = outcome.table
    /\ cache' = who.cache
    /\ last' = IF outcome.error # ""
               THEN ContactReply(op, bearer, HTTP_500, outcome.error, {})
               ELSE IF outcome.result = {}
               THEN ContactReply(op, bearer, HTTP_404, "Contact not found", {})
               ELSE ContactReply(op, bearer, found, "", outcome.result)

\* GET /contacts/
read_contacts(bearer, skip, limit) ==
    LET who == get_current_user(bearer, cache, users, now)
    IN /\ IF ~who.ok
          THEN Denied("read_contacts", bearer, who)
          ELSE /\ \E page \in get_contacts(skip, limit, who.user, contacts) :
                    last' = ContactReply("read_contacts", bearer, HTTP_200, "", page)
               /\ cache' = who.cache
               /\ UNCHANGED contacts
       /\ UNCHANGED <<users, issued, reqs, now, ticks>>

\* GET /contacts/birthdays; today is date.today() of the day of the request
congrat_contacts(bearer, today) ==
    LET who == get_current_user(bearer, cache, users, now)
        outcome == seven_days(who.user, contacts, today)
    IN /\ IF ~who.ok
          THEN Denied("congrat_contacts", bearer, who)
          ELSE /\ last' = IF outcome.error # ""
                          THEN ContactReply("congrat_contacts", bearer, HTTP_500,
                                            outcome.error, {})
                          ELSE ContactReply("congrat_contacts", bearer, HTTP_200, "",
                                            outcome.result)
               /\ cache' = who.cache
               /\ UNCHANGED contacts
       /\ UNCHANGED <<users, issued, reqs, now, ticks>>

\* GET /contacts/{contact_id}
read_contact(bearer, contact_id) ==
    LET who == get_current_user(bearer, cache, users, now)
    IN /\ IF ~who.ok
          THEN Denied("read_contact", bearer, who)
          ELSE Answered("read_contact", bearer, HTTP_200,
                        get_contact(contact_id, who.user, contacts), who)
       /\ UNCHANGED <<users, issued, reqs, now, ticks>>

\* GET /contacts/find/{search_string}
find_contact_by_name_last_name_or_email(bearer, search_string) ==
    LET who == get_current_user(bearer, cache, users, now)
    IN /\ IF ~who.ok
          THEN Denied("find_contact", bearer, who)
          ELSE Answered("find_contact", bearer, HTTP_200,
                        find_contact(search_string, who.user, contacts), who)
       /\ UNCHANGED <<users, issued, reqs, now, ticks>>

\* POST /contacts/
create_contact_route(bearer, body) ==
    LET who == get_current_user(bearer, cache, users, now)
    IN /\ contacts.next_id <= MaxContacts
       /\ IF ~who.ok
          THEN Denied("create_contact", bearer, who)
          ELSE Answered("create_contact", bearer, HTTP_201,
                        create_contact(body, who.user, contacts), who)
       /\ UNCHANGED <<users, issued, reqs, now, ticks>>

\* PUT /contacts/{contact_id}
update_contact_route(bearer, contact_id, body) ==
    LET who == get_current_user(bearer, cache, users, now)
    IN /\ IF ~who.ok
          THEN Denied("update_contact", bearer, who)
          ELSE Answered("update_contact", bearer, HTTP_200,
                        update_contact(contact_id, body, who.user, contacts), who)
       /\ UNCHANGED <<users, issued, reqs, now, ticks>>

\* DELETE /contacts/{contact_id}
remove_contact_route(bearer, contact_id) ==
    LET who == get_current_user(bearer, cache, users, now)
    IN /\ IF ~who.ok
          THEN Denied("remove_contact", bearer, who)
          ELSE Answered("remove_contact", bearer, HTTP_200,
                        remove_contact(contact_id, who.user, contacts), who)
       /\ UNCHANGED <<users, issued, reqs, now, ticks>>

\* Request bodies and parameters.
Ann == <<"a", "n", "n">>
Bob == <<"b", "o", "b">>
Lee == <<"l", "e", "e">>

ContactBodies ==
    {[name |-> Ann, last_name |-> Lee, email |-> Some(<<"a", "@", "x">>),
      birthday |-> Some(Date(1990, 1, 2))],
     [name |-> Bob, last_name |-> Lee, email |-> None, birthday |-> None]}

UpdateBodies ==
    {[name |-> Some(Bob), last_name |-> None, email |-> Some(<<"b", "@", "x">>),
      birthday |-> None]}

ContactIds == 1 .. MaxContacts
Pages == {<<0, 100>>, <<1, 1>>}
Todays == {Date(2023, 12, 28)}
SearchStrings == {Ann, <<"e", "e">>}

Bearers ==
    {None} \cup {Some(token) : token \in {t \in Presentable : t \in issued \/ (HasScope(t) /\ t.claims.scope = "access_token")}}

\* Two users have signed up at time 0, confirmed and logged in; the first
\* one's access token of then has run out and both have logged in again.
SecondLogin == AccessMinutes * SecondsPerMinute + 1

Registered ==
    LET hash == get_password_hash("secret1", 1)
        created == create_user("b@x.com", hash, create_user("a@x.com", hash, {}))
    IN confirmed_email("b@x.com", confirmed_email("a@x.com", created))

LoggedIn ==
    {[u EXCEPT !.refresh_token = Some(create_refresh_token(u.email, None, SecondLogin))] :
        u \in Registered}

InitContacts ==
    /\ users = LoggedIn
    /\ cache = [e \in Emails |-> NoEntry]
    /\ issued = {send_email("a@x.com", 0),
                 create_access_token("a@x.com", None, 0),
                 create_access_token("a@x.com", None, SecondLogin),
                 create_refresh_token("a@x.com", None, SecondLogin),
                 create_access_token("b@x.com", None, SecondLogin)}
    /\ reqs = [r \in Requests |-> IdleReq]
    /\ last = Reply("none", HTTP_200, "", None)
    /\ now = SecondLogin
    /\ ticks = 0
    /\ contacts = NoContacts

NextContacts ==
    \/ \E b \in Bearers, page \in Pages : read_contacts(b, page[1], page[2])
    \/ \E b \in Bearers, today \in Todays : congrat_contacts(b, today)
    \/ \E b \in Bearers, id \in ContactIds : read_contact(b, id)
    \/ \E b \in Bearers, str \in SearchStrings :
          find_contact_by_name_last_name_or_email(b, str)
    \/ \E b \in Bearers, body \in ContactBodies : create_contact_route(b, body)
    \/ \E b \in Bearers, id \in ContactIds, body \in UpdateBodies :
          update_contact_route(b, id, body)
    \/ \E b \in Bearers, id \in ContactIds : remove_contact_route(b, id)

SpecContacts == InitContacts /\ [][NextContacts]_vars

(* ------------------- repository/contacts.py, the queries ---------------- *)

\* Contacts with a birthday, the search strings of find_contact and the days
\* on which seven_days is asked.
QueryBodies ==
    {[name |-> Ann, last_name |-> Lee, email |-> Some(<<"a", "@", "x">>),
      birthday |-> Some(Date(1990, 1, 2))],
     [name |-> Bob, last_name |-> <<"r", "a", "y">>, email |-> None,
      birthday |-> Some(Date(1992, 12, 30))],
     [name |-> <<"c", "a", "l">>, last_name |-> Lee, email |-> Some(<<"c", "@", "x">>),
      birthday |-> Some(Date(1988, 6, 15))]}

QueryStrings == {Ann, <<"a">>, <<"o">>, <<"@">>, <<"e", "e">>, <<"z">>}

QueryDays == {Date(2023, 12, 28), Date(2023, 12, 25), Date(2024, 6, 10)}

\* The contacts table after two contacts have been created.
QueryTables ==
    {create_contact(second, v, create_contact(first, u, NoContacts).table).table :
        first \in QueryBodies, second \in QueryBodies, u \in LoggedIn, v \in LoggedIn}

QueryReply(op, user, arg, outcome) ==
    [op |-> op, user |-> user, arg |-> arg, result |-> outcome.result,
     error |-> outcome.error]

InitQueries ==
    /\ users = LoggedIn
    /\ cache = [e \in Emails |-> NoEntry]
    /\ issued = {}
    /\ reqs = [r \in Requests |-> IdleReq]
    /\ last = QueryReply("none", None, None, Outcome({}, NoContacts, ""))
    /\ now = SecondLogin
    /\ ticks = 0
    /\ contacts \in QueryTables

query_find_contact(search_string, user) ==
    /\ last' = QueryReply("find_contact", user, search_string,
                          find_contact(search_string, user, contacts))
    /\ UNCHANGED <<users, cache, issued, reqs, now, ticks, contacts>>

query_seven_days(today, user) ==
    /\ last' = QueryReply("seven_days", user, today, seven_days(user, contacts, today))
    /\ UNCHANGED <<users, cache, issued, reqs, now, ticks, contacts>>

NextQueries ==
    \/ \E str \in QueryStrings, user \in users : query_find_contact(str, user)
    \/ \E today \in QueryDays, user \in users : query_seven_days(today, user)

SpecQueries == InitQueries /\ [][NextQueries]_vars

(* ------------------- sessions: login, refresh, identity ----------------- *)

\* The handlers that sign tokens, granting one pair more than MaxGrants so
\* that a granted pair can be replaced by a later one, and get_current_user
\* taken in one step, as one worker runs it.
CanGrant(toks) == Cardinality(Grants(issued \cup toks)) <= MaxGrants + 1

\* POST /auth/login, lines 57-68
session_login(username, password) ==
    LET found == get_user_by_email(username, users)
        refused == login_check(found, password)
        access_token == create_access_token(username, None, now)
        new_refresh_token == create_refresh_token(username, None, now)
    IN IF refused # ""
       THEN /\ last' = Reply("login", HTTP_401, refused, None)
            /\ UNCHANGED <<users, cache, issued, reqs, now, ticks, contacts>>
       ELSE /\ CanGrant({new_refresh_token})
            /\ users' = update_token(The(found), Some(new_refresh_token), users)
            /\ issued' = issued \cup {access_token, new_refresh_token}
            /\ last' = Granted("login", access_token, new_refresh_token, None)
            /\ UNCHANGED <<cache, reqs, now, ticks, contacts>>

\* GET /auth/refresh_token, lines 83-93
session_refresh(token) ==
    LET outcome == refresh_outcome(token, users, now)
    IN /\ CanGrant(outcome.minted)
       /\ users' = outcome.users
       /\ issued' = issued \cup outcome.minted
       /\ last' = outcome.reply
       /\ UNCHANGED <<cache, reqs, now, ticks, contacts>>

\* A route that depends on get_current_user, called with a bearer token
session_current_user(token) ==
    LET who == get_current_user(Some(token), cache, users, now)
    IN /\ cache' = who.cache
       /\ last' = IF who.ok
                  THEN Resolved(HTTP_200, "resolved", Some(who.user), None)
                  ELSE Resolved(who.status, who.detail, None, None)
       /\ UNCHANGED <<users, issued, reqs, now, ticks, contacts>>

NextSession ==
    \/ \E e \in Emails, p \in SignupPasswords, s \in Salts : signup(e, p, s)
    \/ \E t \in Presentable : confirmed_email_route(t)
    \/ \E e \in Emails, p \in Passwords : session_login(e, p)
    \/ \E t \in Presentable : session_refresh(t)
    \/ \E t \in Presentable : session_current_user(t)
    \/ \E d \in TickSteps : Tick(d)

SpecSession == Init /\ [][NextSession]_vars

(* ------------------------------- claims -------------------------------- *)

Account(email) == get_user_by_email(email, users)
AccountAfter(email) == get_user_by_email(email, users')

Valid(token) == ~JWTError(token, now)
IsAccess(token) == HasScope(token) /\ token.claims.scope = "access_token"
IsRefresh(token) == HasScope(token) /\ token.claims.scope = "refresh_token"
IsMail(token) == ~HasScope(token)

\* C1: a login with the registered password, made while the account exists
\* and is not confirmed, is refused with "Email not confirmed", returns no
\* token pair and leaves the account's refresh_token None.
C1_LoginBeforeConfirmation ==
    [][\A e \in Emails, p \in Passwords :
          (/\ last'.op = "login"
           /\ login(e, p)
           /\ Account(e) # None
           /\ ~The(Account(e)).confirmed
           /\ verify_password(p, The(Account(e)).password))
          => /\ last'.status = HTTP_401
             /\ last'.detail = "Email not confirmed"
             /\ last'.tokens = None
             /\ The(AccountAfter(e)).refresh_token = None]_vars

C1_Witness ==
    /\ last.op = "login"
    /\ last.detail = "Email not confirmed"
    /\ \E u \in users : ~u.confirmed /\ u.refresh_token = None

\* C2: a refresh that succeeds returns a refresh token that is a different
\* string from the refresh token it was called with.
C2_RefreshReturnsNewToken ==
    (last.op = "refresh" /\ last.tokens # None)
    => Some(The(last.tokens).refresh_token) # The(last.tokens).from

\* C3: once refresh(R1) has succeeded, a second refresh(R1) with the still
\* unexpired R1 is refused with "Invalid refresh token" and sets the account's
\* refresh_token to None.
C3_ReuseRevokes ==
    (last.op = "refresh" /\ last.tokens # None)
    => \A token \in The(last.tokens).from :
          Valid(token)
          => LET again == refresh_outcome(token, users, now)
             IN /\ again.reply.status = HTTP_401
                /\ again.reply.detail = "Invalid refresh token"
                /\ \A u \in get_user_by_email(token.claims.sub, again.users) :
                      u.refresh_token = None

\* C4: a valid refresh-scope token is refused by get_current_user and a valid
\* access-scope token is refused by refresh_token; both are refused for the
\* scope and leave the users table and the cache as they were.
C4_ScopeSeparation ==
    [][\A token \in Presentable :
          /\ (last'.op = "current_user" /\ Valid(token) /\ IsRefresh(token))
             => \A r \in Requests :
                  gcu_lookup(r, token)
                  => last' = Unauthenticated /\ UNCHANGED <<users, cache, reqs>>
          /\ (last'.op = "refresh" /\ Valid(token) /\ IsAccess(token)
                /\ refresh_token(token))
             => /\ last'.status = HTTP_401
                /\ last'.detail = "Invalid scope for token"
                /\ last'.tokens = None
                /\ UNCHANGED <<users, cache>>]_vars

C4_Witness ==
    /\ last.op = "refresh"
    /\ last.detail = "Invalid scope for token"
    /\ \E u \in users : u.refresh_token # None

\* C5: confirmed_email called with a valid access-scope or refresh-scope
\* token never answers with success.
C5_ConfirmRequiresMailScope ==
    [][\A token \in Presentable :
          (/\ last'.op = "confirm"
           /\ Valid(token)
           /\ HasScope(token)
           /\ confirmed_email_route(token))
          => last'.status # HTTP_200]_vars

\* C6: every get_current_user call that does not resolve a user ends with
\* the 401 "Could not validate credentials" answer and with no other.
C6_OnlyUnauthenticated ==
    (last.op = "current_user" /\ last.user = None) => last = Unauthenticated

\* C7: no access or refresh token created with expires_delta <= 0 is
\* accepted by a later decode.
C7_NonPositiveLifetimeRejected ==
    (/\ last.op = "decode"
     /\ The(last.tokens).expires_delta # None
     /\ The(The(last.tokens).expires_delta) <= 0)
    => last.status # HTTP_200

\* C8: confirmed_email with a valid confirmation token of an existing
\* account: on an unconfirmed account it sets confirmed and answers "Email
\* confirmed", changing nothing else; on a confirmed account it answers
\* "Your email is already confirmed" and changes no account.
C8_ConfirmIdempotent ==
    [][\A token \in Presentable :
          (/\ last'.op = "confirm"
           /\ Valid(token)
           /\ IsMail(token)
           /\ Account(token.claims.sub) # None
           /\ confirmed_email_route(token))
          => LET u == The(Account(token.claims.sub))
             IN /\ last'.status = HTTP_200
                /\ IF u.confirmed
                   THEN /\ last'.detail = "Your email is already confirmed"
                        /\ users' = users
                   ELSE /\ last'.detail = "Email confirmed"
                        /\ users' = (users \ {u}) \cup {[u EXCEPT !.confirmed = TRUE]}]_vars

C8_Witness ==
    /\ last.op = "confirm"
    /\ last.detail = "Your email is already confirmed"
    /\ \A t \in issued : IsMail(t)
    /\ \E u \in users : u.confirmed

\* C9: an account is created unconfirmed, and no step takes a confirmed
\* account away or back to unconfirmed.
C9_ConfirmedMonotonic ==
    [][/\ \A u \in users :
            u.confirmed => \E v \in users' : v.email = u.email /\ v.confirmed
       /\ \A v \in users' :
            Account(v.email) = None => ~v.confirmed]_vars

C9_Witness ==
    /\ last.op = "refresh"
    /\ last.tokens # None
    /\ \E t \in issued : IsMail(t) /\ t.claims.iat < now
    /\ \E u \in users : u.confirmed /\ u.refresh_token # None

\* C10: every entry a cache read can return carries a time-to-live and was
\* loaded from the users table at most 900 seconds before, and so did every
\* entry a cache hit returned.
C10_CacheHitWithinTtl ==
    /\ \A e \in Emails :
          Readable(cache[e], now)
          => /\ The(cache[e]).ttl # None
             /\ now - The(cache[e]).loaded <= CacheTtl
    /\ (last.op = "current_user" /\ last.hit # None)
          => /\ The(last.hit).ttl # None
             /\ The(last.hit).age <= CacheTtl

\* C11: a cache entry that carries its time-to-live is gone once 900 seconds
\* have passed since it was loaded from the users table, and a cache hit
\* returns a snapshot loaded less than 900 seconds before.
C11_AbsentAfterTtl ==
    /\ \A e \in Emails :
          (Readable(cache[e], now) /\ The(cache[e]).ttl # None)
          => now - The(cache[e]).loaded < CacheTtl
    /\ (last.op = "current_user" /\ last.hit # None /\ The(last.hit).ttl # None)
          => The(last.hit).age < CacheTtl

\* C12: a get_current_user call answered from the cache has made no select
\* on the users table.
C12_HitReadsNoStore ==
    (last.op = "current_user" /\ last.hit # None) => The(last.hit).selects = 0

C14_OnlyLatestAccepted ==
    [][/\ \A e \in Emails :
            Cardinality({t \in Presentable :
                            /\ t.claims.sub = e
                            /\ refresh_outcome(t, users, now).reply.status = HTTP_200}) <= 1
       /\ \A e \in Emails, p \in Passwords :
            (last'.op = "login" /\ last'.tokens # None /\ login(e, p))
            => \A older \in The(Account(e)).refresh_token :
                  Valid(older)
                  => refresh_outcome(older, users', now).reply.detail
                        = "Invalid refresh token"]_vars

\* C16: signup for an email that has an account answers 409 "Account already
\* exists" and leaves the users table as it was; signup for a new email adds
\* exactly one row, with confirmed false and refresh_token None.
C16_SignupExisting ==
    [][\A e \in Emails, p \in SignupPasswords, s \in Salts :
          (last'.op = "signup" /\ signup(e, p, s))
          => IF Account(e) # None
             THEN /\ last'.status = HTTP_409
                  /\ last'.detail = "Account already exists"
                  /\ users' = users
             ELSE /\ last'.status = HTTP_201
                  /\ Cardinality(AccountAfter(e)) = 1
                  /\ users' = users \cup AccountAfter(e)
                  /\ ~The(AccountAfter(e)).confirmed
                  /\ The(AccountAfter(e)).refresh_token = None]_vars

C16_Witness ==
    /\ last.op = "signup"
    /\ last.status = HTTP_409
    /\ \E u \in users : u.confirmed /\ u.refresh_token # None

\* C18: login answers with a token pair exactly when the account exists, is
\* confirmed and the password is the registered one; otherwise it answers
\* "Invalid email" for no account, else "Email not confirmed" for an
\* unconfirmed one whatever the password, else "Invalid password".  After a
\* success the account's refresh_token is the refresh token returned.
C18_LoginOutcome ==
    [][\A e \in Emails, p \in Passwords :
          (last'.op = "login" /\ login(e, p))
          => IF Account(e) = None
             THEN last' = Reply("login", HTTP_401, "Invalid email", None) /\ users' = users
             ELSE IF ~The(Account(e)).confirmed
             THEN last' = Reply("login", HTTP_401, "Email not confirmed", None) /\ users' = users
             ELSE IF The(Account(e)).password.digest_of # p
             THEN last' = Reply("login", HTTP_401, "Invalid password", None) /\ users' = users
             ELSE /\ last'.status = HTTP_200
                  /\ last'.tokens # None
                  /\ The(AccountAfter(e)).refresh_token
                        = Some(The(last'.tokens).refresh_token)]_vars

C18_Witness ==
    /\ last.op = "login"
    /\ last.detail = "Invalid password"
    /\ \E u \in users : u.confirmed /\ u.refresh_token = None

\* C19: every refusal carries the status of its kind: an existing account
\* 409; an unknown account, an unconfirmed one, a wrong password, a revoked
\* refresh token and an unauthenticated caller 401; a verification error 400;
\* a token that refresh_token or confirmed_email cannot decode, or whose
\* scope is wrong there, 422.
C19_StatusOfFailure ==
    /\ last.detail = "Account already exists" => last.status = HTTP_409
    /\ last.detail \in {"Invalid email", "Email not confirmed", "Invalid password",
                        "Invalid refresh token"} => last.status = HTTP_401
    /\ (last.op = "current_user" /\ last.user = None) => last.status = HTTP_401
    /\ last.detail = "Verification error" => last.status = HTTP_400
    /\ (/\ last.op \in {"refresh", "confirm"}
        /\ last.detail \in {"Could not validate credentials", "Invalid scope for token",
                            "Invalid token for email verification"})
       => last.status = HTTP_422

C15_OneRefreshWins ==
    \A v, w \in Workers :
        (/\ v # w
         /\ reqs[v].pc = "done" /\ reqs[v].reply.op = "refresh"
         /\ reqs[w].pc = "done" /\ reqs[w].reply.op = "refresh"
         /\ reqs[v].arg = reqs[w].arg
         /\ reqs[v].reply.tokens # None
         /\ The(reqs[v].reply.tokens).refresh_token # reqs[v].arg)
        => ~(/\ reqs[w].reply.tokens # None
             /\ The(reqs[w].reply.tokens).refresh_token # reqs[w].arg)

\* C17: of two finished signup calls for the same email, one at most has
\* created the account, every other one was answered 409 "Account already
\* exists", and the users table holds one row with that email.
C17_OneSignupWins ==
    \A v, w \in Workers :
        (/\ v # w
         /\ reqs[v].pc = "done" /\ reqs[v].reply.op = "signup"
         /\ reqs[w].pc = "done" /\ reqs[w].reply.op = "signup"
         /\ reqs[v].arg = reqs[w].arg)
        => /\ Cardinality(Account(reqs[v].arg)) = 1
           /\ {reqs[v].reply.status, reqs[w].reply.status} \subseteq {HTTP_201, HTTP_409}
           /\ HTTP_409 \in {reqs[v].reply.status, reqs[w].reply.status}

\* C28: get_current_user called with an access token whose exp lies before
\* the current time is refused with 401 and resolves no user, also while the
\* cache holds an entry for the token's subject; it touches neither the
\* cache nor the users table.
C28_ExpiredNeverResolved ==
    [][(last'.op = "current_user" /\ now' = now)
       => \A token \in issued, r \in Requests :
             (IsAccess(token) /\ token.claims.exp < now /\ gcu_lookup(r, token))
             => /\ last' = Unauthenticated
                /\ UNCHANGED <<users, cache, reqs>>]_vars

C28_Witness ==
    /\ last = Unauthenticated
    /\ \E token \in issued :
          /\ IsAccess(token)
          /\ token.key = SECRET_KEY
          /\ token.claims.exp < now
          /\ Readable(cache[token.claims.sub], now)

\* C29: confirmed_email called with an access or refresh token changes no
\* account, and every step that turns an account from unconfirmed to
\* confirmed is a confirmed_email call with a token that was issued as the
\* confirmation token of that account's email.
C29_ConfirmedOnlyByMailToken ==
    [][(last'.op = "confirm" /\ now' = now)
       => /\ \A token \in Presentable :
               (HasScope(token) /\ confirmed_email_route(token)) => users' = users
          /\ \A u \in users :
               (~u.confirmed /\ The(AccountAfter(u.email)).confirmed)
               => \E token \in issued :
                     /\ IsMail(token)
                     /\ token.claims.sub = u.email
                     /\ confirmed_email_route(token)]_vars

C29_Witness ==
    /\ last.op = "confirm"
    /\ last.detail = "Your email is already confirmed"
    /\ \E token \in issued : IsAccess(token) /\ Valid(token)

\* C30: request_email for an email that has no account answers 200 "Check
\* your email for confirmation.", mails nothing and changes no account.
C30_ResendUnknownEmail ==
    [][(last'.op = "request_email" /\ now' = now)
       => \A e \in Emails :
             (Account(e) = None /\ request_email(e))
             => /\ last'.status = HTTP_200
                /\ last'.detail = "Check your email for confirmation."
                /\ issued' = issued
                /\ users' = users]_vars

\* C21: signup of a new email stores the account and answers 201 before
\* send_email has run, and the later end of send_email, sent or failed,
\* changes neither the answer nor any account.
C21_SignupIgnoresMailer ==
    [][/\ (last'.op = "signup" /\ now' = now)
          => \A w \in Workers, e \in Emails, p \in SignupPasswords, s \in Salts :
                (Account(e) = None /\ signup_respond(w, e, p, s))
                => /\ last'.status = HTTP_201
                   /\ AccountAfter(e) # None
                   /\ users' = users \cup AccountAfter(e)
                   /\ ~The(AccountAfter(e)).confirmed
                   /\ issued' = issued
                   /\ reqs'[w].pc = "mail"
       /\ reqs' # reqs
          => \A w \in Workers, o \in MailOutcomes :
                send_email_task(w, o) => users' = users /\ last' = last]_vars

C21_Witness ==
    /\ last.op = "signup"
    /\ last.status = HTTP_201
    /\ issued = {}
    /\ \A w \in Workers : reqs[w].pc = "idle"
    /\ \E u \in users : ~u.confirmed

\* The operations of routes/contacts.py, and a bearer token that names a
\* user: signed with the key, not run out, of access scope, for an account.
ContactOps ==
    {"read_contacts", "congrat_contacts", "read_contact", "find_contact",
     "create_contact", "update_contact", "remove_contact"}

Authentic(bearer) ==
    /\ bearer # None
    /\ LET token == The(bearer)
       IN /\ token.key = SECRET_KEY
          /\ token.claims.exp >= now
          /\ IsAccess(token)
          /\ Account(token.claims.sub) # None

Caller(bearer) == The(Account(The(bearer).claims.sub))

\* C22: a contacts request whose bearer token is missing, forged, run out,
\* of another scope or without a scope gets no contact in its answer, is not
\* answered with 200 or 201, and leaves the contacts table as it was.
C22_NoIdentityNoContacts ==
    [][(last'.op \in ContactOps /\ ~Authentic(last'.bearer))
       => /\ contacts' = contacts
          /\ last'.result = {}
          /\ last'.status \notin {HTTP_200, HTTP_201}]_vars

C22_Witness ==
    /\ last.op = "remove_contact"
    /\ last.status = HTTP_401
    /\ last.bearer # None
    /\ LET token == The(last.bearer)
       IN /\ IsAccess(token)
          /\ token.key = SECRET_KEY
          /\ token.claims.exp < now
          /\ \E c \in contacts.rows : c.user_id = Caller(last.bearer).id

\* C23: whatever contacts several users have created, an answer to user U
\* holds only contacts of U that are in the table, no request of U changes or
\* removes a contact of another user, and an update or a removal that U asks
\* for with the id of another user's contact is answered 404.
C23_IsolatedPerUser ==
    [][(last'.op \in ContactOps /\ Authentic(last'.bearer))
       => LET me == Caller(last'.bearer).id
              foreign == {c \in contacts.rows : c.user_id # me}
          IN /\ \A c \in last'.result : c.user_id = me
             /\ last'.op \in {"read_contacts", "congrat_contacts", "read_contact",
                              "find_contact"}
                => last'.result \subseteq contacts.rows
             /\ foreign \subseteq contacts'.rows
             /\ last'.op = "update_contact"
                => \A c \in foreign, body \in UpdateBodies :
                      update_contact_route(last'.bearer, c.id, body)
                      => last'.status = HTTP_404
             /\ last'.op = "remove_contact"
                => \A c \in foreign :
                      remove_contact_route(last'.bearer, c.id) => last'.status = HTTP_404]_vars

C23_Witness ==
    /\ last.op = "remove_contact"
    /\ last.status = HTTP_404
    /\ Authentic(last.bearer)
    /\ Cardinality(contacts.rows) = MaxContacts
    /\ \E mine \in contacts.rows : mine.user_id = Caller(last.bearer).id
    /\ \E other \in contacts.rows : other.user_id # Caller(last.bearer).id

\* The ids that were given to a contact which has since been removed.
Gone(table) == {i \in 1 .. (table.next_id - 1) : \A c \in table.rows : c.id # i}

\* C24: a removal of a contact of the user is answered with that contact and
\* takes exactly it from the table; the id of a removed contact is never in
\* the table again, and every read, update or removal with such an id is
\* answered 404 and leaves the table as it was.
C24_RemovedStaysRemoved ==
    [][last'.op \in ContactOps
       => /\ Gone(contacts) \subseteq Gone(contacts')
          /\ (last'.op = "remove_contact" /\ Authentic(last'.bearer))
             => \A c \in Mine(Caller(last'.bearer), contacts) :
                   remove_contact_route(last'.bearer, c.id)
                   => /\ last'.status = HTTP_200
                      /\ last'.result = {c}
                      /\ contacts'.rows = contacts.rows \ {c}
                      /\ c.id \in Gone(contacts')
          /\ last'.op \in {"read_contact", "update_contact", "remove_contact"}
             => \A id \in Gone(contacts) \cap ContactIds :
                   (\/ read_contact(last'.bearer, id)
                    \/ remove_contact_route(last'.bearer, id)
                    \/ \E body \in UpdateBodies : update_contact_route(last'.bearer, id, body))
                   => /\ last'.status \in {HTTP_404, HTTP_401, HTTP_500}
                      /\ Authentic(last'.bearer) => last'.status = HTTP_404
                      /\ last'.result = {}
                      /\ contacts' = contacts]_vars

C24_Witness ==
    /\ last.op = "remove_contact"
    /\ last.status = HTTP_404
    /\ Authentic(last.bearer)
    /\ Gone(contacts) = ContactIds

\* C25: an update of a contact of the user puts the values of the body that
\* are not None into that row, leaves its other columns, its id and its owner
\* and every other row as they were and answers with the new row; an update
\* with an id that is not a contact of the user is answered 404 and changes
\* no row.
C25_UpdateSetsGivenFields ==
    [][(last'.op = "update_contact" /\ Authentic(last'.bearer))
       => \A id \in ContactIds, body \in UpdateBodies :
             update_contact_route(last'.bearer, id, body)
             => LET mine == {c \in contacts.rows :
                                c.id = id /\ c.user_id = Caller(last'.bearer).id}
                IN IF mine = {}
                   THEN last'.status = HTTP_404 /\ contacts' = contacts
                   ELSE \E c \in mine, d \in contacts'.rows :
                           /\ contacts' = [contacts EXCEPT !.rows = (@ \ {c}) \cup {d}]
                           /\ last'.status = HTTP_200
                           /\ last'.result = {d}
                           /\ d.id = c.id
                           /\ d.user_id = c.user_id
                           /\ d.name = IF body.name = None THEN c.name ELSE The(body.name)
                           /\ d.last_name = IF body.last_name = None THEN c.last_name
                                            ELSE The(body.last_name)
                           /\ d.email = IF body.email = None THEN c.email ELSE body.email
                           /\ d.birthday = IF body.birthday = None THEN c.birthday
                                           ELSE body.birthday]_vars

C25_Witness ==
    /\ last.op = "update_contact"
    /\ last.status = HTTP_200
    /\ \E d \in last.result :
          /\ d \in contacts.rows
          /\ d.name = Bob
          /\ d.last_name = Lee
          /\ d.email = Some(<<"b", "@", "x">>)
          /\ d.birthday = Some(Date(1990, 1, 2))

\* The search string is in the column: at its beginning, inside, at its end,
\* or all of it.  A NULL column contains nothing.
Contains(column, search_string) ==
    \E i \in 0 .. (Len(column) - Len(search_string)) :
        SubSeq(column, i + 1, i + Len(search_string)) = search_string

Having(search_string, user, table) ==
    {c \in Mine(user, table) :
        \/ Contains(c.name, search_string)
        \/ Contains(c.last_name, search_string)
        \/ \E email \in c.email : Contains(email, search_string)}

\* C26: find_contact answers with a contact of the user that has the search
\* string somewhere in its name, last name or email, and answers with no
\* contact only when the user has none that has it.
C26_FindsContaining ==
    last.op = "find_contact"
    => /\ last.error = ""
       /\ last.result \subseteq Having(last.arg, last.user, contacts)
       /\ last.result = {} => Having(last.arg, last.user, contacts) = {}

\* The contacts of the user of whom a birthday is 1 to 7 days after today.
BirthdayAhead(user, table, today) ==
    {c \in Mine(user, table) :
        \E b \in c.birthday, n \in 1 .. 7 :
            /\ AddDays(today, n).month = b.month
            /\ AddDays(today, n).day = b.day}

\* C27: seven_days answers with exactly the contacts of the user that have
\* their next birthday 1 to 7 days after today, in the days from late
\* December to early January as in every other week.
C27_BirthdaysOfTheWeek ==
    last.op = "seven_days"
    => /\ last.error = ""
       /\ last.result = BirthdayAhead(last.user, contacts, last.arg)

\* C31: the subject of every token that was issued, mail, access or refresh,
\* has a row in the users table, and no refresh_token call has ended in the
\* AttributeError of a user that was not found.
C31_SubjectsHaveAccounts ==
    /\ \A token \in issued : Account(token.claims.sub) # None
    /\ last.op = "refresh" => last.detail # "AttributeError"

C31_Witness ==
    /\ last.op = "refresh"
    /\ last.tokens # None
    /\ \E token \in issued : IsMail(token)
    /\ \E token \in issued : IsAccess(token)
    /\ \E token \in issued : IsRefresh(token) /\ Account(token.claims.sub) # None

\* C32: every user held in the cache under an email is confirmed and is the
\* row of the users table with that email in every column but refresh_token.
C32_CachedSnapshot ==
    \A e \in Emails :
        cache[e] # NoEntry
        => LET cached == The(cache[e]).value
           IN /\ cached.confirmed
              /\ cached.email = e
              /\ \E u \in Account(e) :
                    /\ cached.id = u.id
                    /\ [cached EXCEPT !.refresh_token = u.refresh_token] = u

C32_Witness ==
    \E e \in Emails :
        /\ Readable(cache[e], now)
        /\ The(cache[e]).value.confirmed
        /\ The(cache[e]).value.refresh_token # None
        /\ last.op = "current_user"
        /\ last.user # None

\* C33: a request that is not answered with 200 or 201 changes a row of the
\* users table only if it is a refresh_token call with a token that decodes
\* and is not the stored one, and then only clears that row's refresh_token;
\* so a refused login and a refresh with a token that does not decode leave
\* every refresh_token, confirmed flag and password as they were.
C33_FailuresLeaveAccounts ==
    [][(users' # users /\ last'.status \notin {HTTP_200, HTTP_201})
       => /\ last'.op = "refresh"
          /\ last'.detail = "Invalid refresh token"
          /\ \E token \in Presentable :
                /\ token.key = SECRET_KEY
                /\ token.claims.exp >= now
                /\ IsRefresh(token)
                /\ \E u \in Account(token.claims.sub) :
                      /\ u.refresh_token # Some(token)
                      /\ users' = (users \ {u}) \cup {[u EXCEPT !.refresh_token = None]}
                /\ session_refresh(token)]_vars

C33_Witness ==
    /\ last.op = "login"
    /\ last.detail = "Invalid password"
    /\ \E u \in users : u.refresh_token # None
    /\ \E token \in issued : IsRefresh(token) /\ token.claims.exp < now

\* C34: an access token signed with the key and not run out resolves to the
\* user of its subject whatever refresh_token that user's row holds, a
\* cleared or a replaced one included, and an identity lookup was answered
\* so in every state; the answer is the same with every refresh_token cleared.
C34_AccessOutlivesRevocation ==
    /\ \A token \in issued :
          (IsAccess(token) /\ token.claims.exp >= now)
          => LET who == get_current_user(Some(token), cache, users, now)
                 cleared == {[u EXCEPT !.refresh_token = None] : u \in users}
             IN /\ who.ok
                /\ who.user.email = token.claims.sub
                /\ get_current_user(Some(token), cache, cleared, now).ok
    /\ (last.op = "current_user" /\ last.status = HTTP_200)
       => \E u \in last.user : Account(u.email) # None

C34_Witness ==
    /\ last.op = "current_user"
    /\ last.status = HTTP_200
    /\ \E u \in last.user :
          /\ \A v \in Account(u.email) : v.refresh_token = None
          /\ \E token \in issued : IsRefresh(token) /\ token.claims.sub = u.email

\* C36: no refresh_token call is granted a pair for a user whose stored
\* refresh_token is None at that moment, and a refresh_token that is None is
\* set again by a login of that user only.
C36_RevokedUntilLogin ==
    [][/\ \A w \in Workers :
             (/\ reqs'[w] # reqs[w]
              /\ reqs'[w].pc = "done"
              /\ reqs'[w].reply.op = "refresh"
              /\ reqs'[w].reply.tokens # None)
             => \A u \in Account(reqs'[w].arg.claims.sub) : u.refresh_token # None
       /\ users' # users
          => \A u \in users :
                (u.refresh_token = None
                 /\ \E v \in AccountAfter(u.email) : v.refresh_token # None)
                => \E p \in Passwords : login(u.email, p)]_vars

\* C35: find_contact answers with one contact or with none and never ends in
\* an error, also when several contacts of the user match the search string.
C35_FindNeverFails ==
    last.op = "find_contact"
    => /\ last.error = ""
       /\ Cardinality(last.result) <= 1

============================================================================
